---------------------------- MODULE Spec2Model ----------------------------
(***************************************************************************)
(* Model of the base-id allocation performed by TopoFactory.create and     *)
(* TopoFactory.__compute_base_ids                                          *)
(* (Autocoders/Python/src/fprime_ac/models/TopoFactory.py).                *)
(*                                                                         *)
(* Spec is a run of create(); FairSpec is a run under the fairness of      *)
(* sequential code; AnalysisSpec is one call of the component analysis,    *)
(* statement by statement; ConversionSpec is one call of __id_to_int;      *)
(* EnumSpec is one call of XmlEnumParser.check_enum_values and ArraySpec   *)
(* one construction of XmlArrayParser.                                     *)
(*                                                                         *)
(* A run is one call of create() on one parsed topology.  The topology     *)
(* (assembly base id, assembly window, instances) is the input of the run  *)
(* and is chosen in Init.  Optional values (Python None) are sequences of  *)
(* length 0 or 1: None == <<>>, Some(v) == <<v>>.  The textual base id and *)
(* window of an instance are represented by the integer Python's           *)
(* int(text, 0) returns for them; abs() is applied by the model as the     *)
(* code applies it.  The assembly base id and window are the integers of  *)
(* lines 386-387, after the configuration defaults have been filled in.    *)
(***************************************************************************)
EXTENDS Integers, Sequences, FiniteSets, TLC

VARIABLES
    generate_new_IDS,        \* TopoFactory.__generate_new_IDS
    assembly_base_id,        \* x.get_base_id(), as an int
    assembly_window,         \* x.get_base_id_window(), as an int
    instances,               \* x.get_instances()
    pc,                      \* position of the run
    id,                      \* local "id" of __compute_base_ids (clamped base)
    initial_comp_with_ID,    \* candidates with an explicit base id
    initial_comp_without_ID, \* candidates without an explicit base id
    out_base_ids_list,       \* the allocation result
    with_ID_obj,             \* pending fixed candidate, or None
    without_ID_obj,          \* pending floating candidate, or None
    prev_id,                 \* base id of the last assigned entry
    prev_window,             \* window of the last assigned entry
    save_buffer,             \* logical rows of the id table
    log_file_written,        \* the _IDTableLog.txt file was written
    topology,                \* the value create() returned, or None
    error,                   \* how the run aborted, "none" while it has not
    range_calls,             \* arguments of the calls of
                             \* __compute_component_base_id_range, in order
    analysis,                \* locals of one call of
                             \* __compute_component_base_id_range
    conversion,              \* one call of __id_to_int
    consistency,             \* one call of XmlEnumParser.check_enum_values
    array                    \* one construction of XmlArrayParser

vars == <<generate_new_IDS, assembly_base_id, assembly_window, instances, pc,
          id, initial_comp_with_ID, initial_comp_without_ID,
          out_base_ids_list, with_ID_obj, without_ID_obj, prev_id,
          prev_window, save_buffer, log_file_written, topology, error,
          range_calls, analysis, conversion, consistency, array>>

\* the variables of a run of create()
run == <<generate_new_IDS, assembly_base_id, assembly_window, instances, pc,
         id, initial_comp_with_ID, initial_comp_without_ID,
         out_base_ids_list, with_ID_obj, without_ID_obj, prev_id,
         prev_window, save_buffer, log_file_written, topology, error,
         range_calls>>

-----------------------------------------------------------------------------
(* Bounds of the model *)

MaxInst == 2
MaxBase == 2
MaxWin == 1
MaxAsmBase == 2
MaxAsmWin == 3
MaxItemId == 2
MaxLiteralLen == 4
MaxEnumTags == 3
MaxArrayTags == 3

-----------------------------------------------------------------------------
(* Optional values *)

None == <<>>
Some(v) == <<v>>
IsNone(o) == o = <<>>
Val(o) == o[1]

Abs(n) == IF n < 0 THEN -n ELSE n

Max2(a, b) == IF a >= b THEN a ELSE b

-----------------------------------------------------------------------------
(* The parsed component definitions: create() lines 111-123 build the       *)
(* dictionary componentXMLNameToComponent from the topology's imports.     *)
(* Ids and opcodes are the integers __id_to_int yields for them.           *)

componentXMLNameToComponent ==
    [ Sensor |-> [ events     |-> <<0, 1>>,
                   channels   |-> <<0>>,
                   commands   |-> <<>>,
                   parameters |-> <<>> ],
      Radio  |-> [ events     |-> <<0, 5>>,
                   channels   |-> <<19>>,
                   commands   |-> <<3>>,
                   parameters |-> <<[id |-> 0, set_opcode |-> 10,
                                     save_opcode |-> 11]>> ],
      Faulty |-> [ events     |-> <<5, 5>>,
                   channels   |-> <<>>,
                   commands   |-> <<>>,
                   parameters |-> <<>> ] ]

KnownTypes == DOMAIN componentXMLNameToComponent

-----------------------------------------------------------------------------
(* __compute_component_base_id_range *)

\* "id in list": the id at position k was appended to the list before.
UsedBefore(s, k) == \E j \in 1..(k - 1) : s[j] = s[k]

\* parameter_opcode_list when parameter k is reached
OpcodesBefore(ps, k) ==
    {ps[j].set_opcode : j \in 1..(k - 1)} \cup {ps[j].save_opcode : j \in 1..(k - 1)}

CommandIds(c) == {c.commands[k] : k \in DOMAIN c.commands}

\* some sys.exit(-1) of the routine is reached
ComponentIdCollision(c) ==
    \/ \E k \in DOMAIN c.events : UsedBefore(c.events, k)
    \/ \E k \in DOMAIN c.channels : UsedBefore(c.channels, k)
    \/ \E k \in DOMAIN c.commands : UsedBefore(c.commands, k)
    \/ \E k \in DOMAIN c.parameters :
          \/ UsedBefore([j \in DOMAIN c.parameters |-> c.parameters[j].id], k)
          \/ c.parameters[k].set_opcode \in OpcodesBefore(c.parameters, k)
          \/ c.parameters[k].set_opcode \in CommandIds(c)
          \/ c.parameters[k].save_opcode \in
                 OpcodesBefore(c.parameters, k) \cup {c.parameters[k].set_opcode}
          \/ c.parameters[k].save_opcode \in CommandIds(c)

AllIds(c) ==
    {c.events[k] : k \in DOMAIN c.events}
      \cup {c.channels[k] : k \in DOMAIN c.channels}
      \cup CommandIds(c)
      \cup {c.parameters[k].id : k \in DOMAIN c.parameters}
      \cup {c.parameters[k].set_opcode : k \in DOMAIN c.parameters}
      \cup {c.parameters[k].save_opcode : k \in DOMAIN c.parameters}

SetMax(S) == CHOOSE m \in S : \A n \in S : n <= m

\* A component object is a reference to a parsed definition: the name
\* under which create() stored it in the dictionary.
Component(ref) == componentXMLNameToComponent[ref]

\* comp_xml is None or Some(reference).  The result tells whether the
\* routine left through sys.exit, and otherwise the value it returned.
ComputeComponentBaseIdRange(comp_xml) ==
    IF IsNone(comp_xml)
    THEN [exit |-> FALSE, range |-> None]
    ELSE IF ComponentIdCollision(Component(Val(comp_xml)))
    THEN [exit |-> TRUE, range |-> None]
    ELSE IF AllIds(Component(Val(comp_xml))) = {}
    THEN [exit |-> FALSE, range |-> None]
    ELSE [exit |-> FALSE,
          range |-> Some(SetMax(AllIds(Component(Val(comp_xml)))) + 1)]

(* __compute_component_ID_amount *)
\* the max(...) of lines 347-352, for a parsed definition c
ComponentIDAmount(c) ==
    Max2(Max2(Len(c.events), Len(c.channels) + 2 * Len(c.parameters)),
         Max2(Len(c.commands), Len(c.parameters)))

ComputeComponentIDAmount(comp_xml) ==
    IF IsNone(comp_xml)
    THEN None
    ELSE Some(ComponentIDAmount(Component(Val(comp_xml))))

-----------------------------------------------------------------------------
(* One call of __compute_component_base_id_range, statement by statement,  *)
(* followed by the call of __compute_component_ID_amount of line 663.      *)
(* analysis.comp_xml is None or Some(parsed definition); the lists and     *)
(* highest_ID are the locals of the routine.  The position in the four     *)
(* loops is the length of the list each loop appends to.                   *)

AnalysisOf(comp_xml, at) ==
    [comp_xml              |-> comp_xml,
     pc                    |-> at,
     event_id_list         |-> <<>>,
     channel_id_list       |-> <<>>,
     command_id_list       |-> <<>>,
     parameter_id_list     |-> <<>>,
     parameter_opcode_list |-> <<>>,
     highest_ID            |-> None,
     range                 |-> None,
     amount                |-> None]

\* no call is in progress
NoAnalysis == AnalysisOf(None, "idle")

\* "id in list"
In(x, list) == \E j \in DOMAIN list : list[j] = x

\* "if highest_ID is None or id > highest_ID: highest_ID = id"
Highest(highest_ID, x) ==
    IF IsNone(highest_ID) \/ x > Val(highest_ID) THEN Some(x) ELSE highest_ID

\* the loop the routine is in
Phase ==
    IF analysis.pc # "running" THEN analysis.pc
    ELSE IF IsNone(analysis.comp_xml) THEN "return"
    ELSE LET c == Val(analysis.comp_xml)
         IN  IF Len(analysis.event_id_list) < Len(c.events) THEN "events"
             ELSE IF Len(analysis.channel_id_list) < Len(c.channels)
             THEN "channels"
             ELSE IF Len(analysis.command_id_list) < Len(c.commands)
             THEN "commands"
             ELSE IF Len(analysis.parameter_id_list) < Len(c.parameters)
             THEN "parameters"
             ELSE "return"

\* lines 226-241, one iteration
EventStep ==
    /\ Phase = "events"
    /\ LET x == Val(analysis.comp_xml).events[Len(analysis.event_id_list) + 1]
       IN  analysis' =
              IF In(x, analysis.event_id_list)
              THEN [analysis EXCEPT !.pc = "exit"]
              ELSE [analysis EXCEPT
                       !.event_id_list = Append(@, x),
                       !.highest_ID = Highest(@, x)]
    /\ UNCHANGED <<run, conversion, consistency, array>>

\* lines 243-258, one iteration
ChannelStep ==
    /\ Phase = "channels"
    /\ LET x == Val(analysis.comp_xml).channels[Len(analysis.channel_id_list) + 1]
       IN  analysis' =
              IF In(x, analysis.channel_id_list)
              THEN [analysis EXCEPT !.pc = "exit"]
              ELSE [analysis EXCEPT
                       !.channel_id_list = Append(@, x),
                       !.highest_ID = Highest(@, x)]
    /\ UNCHANGED <<run, conversion, consistency, array>>

\* lines 260-275, one iteration
CommandStep ==
    /\ Phase = "commands"
    /\ LET x == Val(analysis.comp_xml).commands[Len(analysis.command_id_list) + 1]
       IN  analysis' =
              IF In(x, analysis.command_id_list)
              THEN [analysis EXCEPT !.pc = "exit"]
              ELSE [analysis EXCEPT
                       !.command_id_list = Append(@, x),
                       !.highest_ID = Highest(@, x)]
    /\ UNCHANGED <<run, conversion, consistency, array>>

\* a check that also looks an opcode up among the event and channel ids
OpcodeTakenByAnyId(x, parameter_opcode_list, command_id_list) ==
    \/ In(x, parameter_opcode_list)
    \/ In(x, command_id_list)
    \/ In(x, analysis.event_id_list)
    \/ In(x, analysis.channel_id_list)

\* an opcode check that forgets the command opcodes
OpcodeTakenByParameter(x, parameter_opcode_list, command_id_list) ==
    In(x, parameter_opcode_list)

\* the two checks of a set or save opcode, lines 300-311 and 320-331
OpcodeTaken(x, parameter_opcode_list, command_id_list) ==
    In(x, parameter_opcode_list) \/ In(x, command_id_list)

\* lines 277-337, one iteration: the parameter id, then the set opcode,
\* then the save opcode; each is appended before the next is checked.
ParameterStep ==
    /\ Phase = "parameters"
    /\ LET p    == Val(analysis.comp_xml).parameters[
                       Len(analysis.parameter_id_list) + 1]
           ids1 == Append(analysis.parameter_id_list, p.id)
           h1   == Highest(analysis.highest_ID, p.id)
           ops2 == Append(analysis.parameter_opcode_list, p.set_opcode)
           h2   == Highest(h1, p.set_opcode)
           ops3 == Append(ops2, p.save_opcode)
           h3   == Highest(h2, p.save_opcode)
       IN  analysis' =
              IF In(p.id, analysis.parameter_id_list)
              THEN [analysis EXCEPT !.pc = "exit"]
              ELSE IF OpcodeTaken(p.set_opcode, analysis.parameter_opcode_list,
                                  analysis.command_id_list)
              THEN [analysis EXCEPT !.pc = "exit",
                                    !.parameter_id_list = ids1,
                                    !.highest_ID = h1]
              ELSE IF OpcodeTaken(p.save_opcode, ops2, analysis.command_id_list)
              THEN [analysis EXCEPT !.pc = "exit",
                                    !.parameter_id_list = ids1,
                                    !.parameter_opcode_list = ops2,
                                    !.highest_ID = h2]
              ELSE [analysis EXCEPT !.parameter_id_list = ids1,
                                    !.parameter_opcode_list = ops3,
                                    !.highest_ID = h3]
    /\ UNCHANGED <<run, conversion, consistency, array>>

\* a return that forgets the "+ 1"
RangeReturnedHighest(highest_ID) ==
    IF IsNone(highest_ID) THEN None ELSE Some(Val(highest_ID))

\* lines 221-222 and 339-340: None for no component object and for no id
RangeReturned(highest_ID) ==
    IF IsNone(highest_ID) THEN None ELSE Some(Val(highest_ID) + 1)

RangeReturn ==
    /\ Phase = "return"
    /\ analysis' = [analysis EXCEPT !.pc = "returned",
                                    !.range = RangeReturned(analysis.highest_ID)]
    /\ UNCHANGED <<run, conversion, consistency, array>>

\* an amount that counts one id per parameter in the channel term
AmountReturnedOnePerParameter(comp_xml) ==
    IF IsNone(comp_xml)
    THEN None
    ELSE Some(Max2(Max2(Len(Val(comp_xml).events),
                        Len(Val(comp_xml).channels)
                           + Len(Val(comp_xml).parameters)),
                   Max2(Len(Val(comp_xml).commands),
                        Len(Val(comp_xml).parameters))))

\* lines 346-355
AmountReturned(comp_xml) ==
    IF IsNone(comp_xml) THEN None ELSE Some(ComponentIDAmount(Val(comp_xml)))

\* __set_base_id_list line 663: the amount is computed for the list
AmountStep ==
    /\ analysis.pc = "returned"
    /\ analysis' = [analysis EXCEPT !.pc = "done",
                                    !.amount = AmountReturned(analysis.comp_xml)]
    /\ UNCHANGED <<run, conversion, consistency, array>>

-----------------------------------------------------------------------------
(* __set_base_id_list(id, size, inst)                                      *)
(* The result is the candidate list [n, b, w, inst, range, amount] as a    *)
(* record, or the way the routine was left instead of returning.  The      *)
(* fourth element is a reference to the instance object: ref is the        *)
(* position of inst in the topology's instance list.                       *)

\* a resolver that keeps the sign of an explicit base id
ResolveBaseIdSigned(clamped, inst) ==
    IF IsNone(inst.base_id)
    THEN None
    ELSE IF clamped > Abs(Val(inst.base_id))
    THEN Some(Val(inst.base_id) + clamped)
    ELSE Some(Val(inst.base_id))

\* a resolver that never offsets an explicit base id
ResolveBaseIdNoOffset(clamped, inst) ==
    IF IsNone(inst.base_id) THEN None ELSE Some(Abs(Val(inst.base_id)))

\* a resolver that also offsets an explicit base id equal to the floor
ResolveBaseIdOffsetOnEqual(clamped, inst) ==
    IF IsNone(inst.base_id)
    THEN None
    ELSE IF clamped >= Abs(Val(inst.base_id))
    THEN Some(Abs(Val(inst.base_id)) + clamped)
    ELSE Some(Abs(Val(inst.base_id)))

ResolveBaseId(clamped, inst) ==
    IF IsNone(inst.base_id)
    THEN None
    ELSE IF clamped > Abs(Val(inst.base_id))
    THEN Some(Abs(Val(inst.base_id)) + clamped)
    ELSE Some(Abs(Val(inst.base_id)))

\* "size > component_calculated_window_range" with the range None is a
\* comparison of int with NoneType, which raises TypeError.
WindowRaisesTypeError(inst, range) ==
    IsNone(inst.base_id_window) /\ IsNone(range)

\* a resolver that gives every instance without a window the assembly
\* window
ResolveWindowDefault(size, inst, range) ==
    IF ~IsNone(inst.base_id_window)
    THEN Abs(Val(inst.base_id_window))
    ELSE size

\* a resolver that takes the smaller of assembly window and required range
ResolveWindowSmaller(size, inst, range) ==
    IF ~IsNone(inst.base_id_window)
    THEN Abs(Val(inst.base_id_window))
    ELSE IF size > Val(range)
    THEN Val(range)
    ELSE size

\* a resolver that widens an explicit window to the required range
ResolveWindowWidened(size, inst, range) ==
    IF ~IsNone(inst.base_id_window)
    THEN IF ~IsNone(range) /\ Abs(Val(inst.base_id_window)) < Val(range)
         THEN Val(range)
         ELSE Abs(Val(inst.base_id_window))
    ELSE IF size > Val(range)
    THEN size
    ELSE Val(range)

ResolveWindow(size, inst, range) ==
    IF ~IsNone(inst.base_id_window)
    THEN Abs(Val(inst.base_id_window))
    ELSE IF size > Val(range)
    THEN size
    ELSE Val(range)

\* a resolver that treats an undersized window as fatal
SetBaseIdListUndersizedFatal(clamped, size, inst, ref) ==
    LET comp == inst.component_object
        r    == ComputeComponentBaseIdRange(comp)
    IN  IF r.exit
        THEN [outcome |-> "SystemExit"]
        ELSE IF WindowRaisesTypeError(inst, r.range)
        THEN [outcome |-> "TypeError"]
        ELSE IF ~IsNone(r.range) /\ ResolveWindow(size, inst, r.range) < Val(r.range)
        THEN [outcome |-> "SystemExit"]
        ELSE [outcome |-> "return",
              t |-> [name    |-> inst.name,
                     base_id |-> ResolveBaseId(clamped, inst),
                     window  |-> ResolveWindow(size, inst, r.range),
                     inst    |-> ref,
                     range   |-> r.range,
                     amount  |-> ComputeComponentIDAmount(comp)]]

\* lines 648-654 only log when the window is below the calculated range:
\* the candidate is returned all the same.
SetBaseIdList(clamped, size, inst, ref) ==
    LET comp == inst.component_object
        r    == ComputeComponentBaseIdRange(comp)
    IN  IF r.exit
        THEN [outcome |-> "SystemExit"]
        ELSE IF WindowRaisesTypeError(inst, r.range)
        THEN [outcome |-> "TypeError"]
        ELSE [outcome |-> "return",
              t |-> [name    |-> inst.name,
                     base_id |-> ResolveBaseId(clamped, inst),
                     window  |-> ResolveWindow(size, inst, r.range),
                     inst    |-> ref,
                     range   |-> r.range,
                     amount  |-> ComputeComponentIDAmount(comp)]]


-----------------------------------------------------------------------------
(* The topologies a run may be given *)

InstName == <<"A", "B", "C", "D", "E">>

\* The types the instances of the enumerated topologies name; "Missing" has
\* no component definition.
InstanceTypes == {"Sensor", "Missing"}

Instance(n, b, w, ty) ==
    [name |-> n, base_id |-> b, base_id_window |-> w, type |-> ty,
     component_object |-> None]

InstBaseIds == {None} \cup {Some(v) : v \in 0..MaxBase}
InstWindows == {None} \cup {Some(v) : v \in 0..MaxWin}

InstancesOfLen(n) ==
    {s \in [1..n -> [base_id : InstBaseIds, base_id_window : InstWindows,
                     type : InstanceTypes]] : TRUE}

EnumeratedTopologies ==
    { [base_id   |-> ab,
       window    |-> aw,
       instances |-> [k \in 1..Len(s) |->
                         Instance(InstName[k], s[k].base_id,
                                  s[k].base_id_window, s[k].type)]] :
        ab \in {0, MaxAsmBase},
        aw \in {1, MaxAsmWin},
        s \in UNION {InstancesOfLen(n) : n \in 0..MaxInst} }

\* Spec section 8, first example: A floats with required range 20, B is
\* fixed at 50 with window 10, assembly base id 0, assembly window 100.
ScenarioAB ==
    [base_id   |-> 0,
     window    |-> 100,
     instances |-> << Instance("A", None, None, "Radio"),
                      Instance("B", Some(50), Some(10), "Sensor") >>]

\* Spec section 8, second example: C fixed at 10 with window 20, D fixed at
\* 15 with window 5; the example names no assembly base id.
ScenarioCD(ab) ==
    [base_id   |-> ab,
     window    |-> 100,
     instances |-> << Instance("C", Some(10), Some(20), "Sensor"),
                      Instance("D", Some(15), Some(5), "Sensor") >>]

\* Negative texts: int(text, 0) is negative for the assembly base id, for an
\* explicit base id and for an explicit window.
ScenarioNegative(ab, b) ==
    [base_id   |-> ab,
     window    |-> 1,
     instances |-> << Instance("A", Some(b), Some(-2), "Sensor"),
                      Instance("B", None, None, "Sensor"),
                      Instance("C", Some(6), None, "Sensor") >>]

\* Two fixed and two floating instances with gaps between the fixed ones
ScenarioPacking(ab, b1, b2, w, swap) ==
    [base_id   |-> ab,
     window    |-> 3,
     instances |->
        IF swap
        THEN << Instance("A", None, Some(w), "Sensor"),
                Instance("B", Some(b2), Some(3), "Missing"),
                Instance("C", None, None, "Sensor"),
                Instance("D", Some(b1), Some(2), "Sensor") >>
        ELSE << Instance("A", Some(b1), Some(2), "Sensor"),
                Instance("B", None, None, "Sensor"),
                Instance("C", Some(b2), Some(3), "Missing"),
                Instance("D", None, Some(w), "Sensor") >>]

\* Spec section 8, collision detection: a component type with two events
\* that both declare id 5, instantiated as instance F in front of the
\* instance at position at (behind all of them for at = 5, not at all for
\* at = 0), among floating and fixed instances and one of an unknown type.
ScenarioFaulty(ab, at, b) ==
    [base_id   |-> ab,
     window    |-> 3,
     instances |->
        LET others == << Instance("A", None, Some(1), "Sensor"),
                         Instance("B", Some(b), Some(2), "Sensor"),
                         Instance("C", Some(6), None, "Radio"),
                         Instance("D", None, Some(2), "Missing") >>
        IN  IF at = 0
            THEN others
            ELSE SubSeq(others, 1, at - 1)
                   \o << Instance("F", None, None, "Faulty") >>
                   \o SubSeq(others, at, 4)]

ScenarioTopologies ==
    {ScenarioAB}
      \cup {ScenarioFaulty(ab, at, b) :
               ab \in {0, 3}, at \in 0..5, b \in {5, 30}}
      \cup {ScenarioPacking(ab, b1, b2, w, swap) :
               ab \in {1, 4}, b1 \in {5, 7}, b2 \in {9, 12}, w \in {1, 3, 4},
               swap \in BOOLEAN}
      \cup {ScenarioCD(ab) : ab \in (-1)..20}
      \cup {ScenarioNegative(ab, b) : ab \in (-3)..3, b \in (-3)..0}

Topologies == EnumeratedTopologies \cup ScenarioTopologies

-----------------------------------------------------------------------------
(* list.sort(key=...) is stable: equal keys keep their order *)

\* the rank under a sort that reverses the elements of equal key
RankTiesReversed(keys, k) ==
    1 + Cardinality({j \in DOMAIN keys :
                        \/ keys[j] < keys[k]
                        \/ keys[j] = keys[k] /\ j > k})

\* keys[k] is the sort key of s[k]
Rank(keys, k) ==
    1 + Cardinality({j \in DOMAIN keys :
                        \/ keys[j] < keys[k]
                        \/ keys[j] = keys[k] /\ j < k})

StableSort(s, keys) ==
    [p \in 1..Len(s) |-> s[CHOOSE k \in DOMAIN s : Rank(keys, k) = p]]

BaseKey(t) == Val(t.base_id)

\* a sort key that puts the widest floating candidate first
WindowKeyDescending(t) == 0 - t.window

\* a sort key that leaves the floating candidates in declaration order
WindowKeyConstant(t) == 0

WindowKey(t) == t.window

-----------------------------------------------------------------------------
(* __id_to_int *)

(* id_string is the sequence of the characters of the literal.  float()   *)
(* accepts an optional sign, digits with at most one point and at least    *)
(* one digit, and an optional exponent (e or E, optional sign, digits);    *)
(* int(x) truncates towards zero.  int(text, 16) accepts an optional sign, *)
(* an optional 0x or 0X, and at least one hexadecimal digit.               *)

\* no call is in progress
NoConversion == [id_string |-> <<>>, pc |-> "idle", out |-> None]

DecDigits == <<"0", "1", "2", "3", "4", "5", "6", "7", "8", "9">>
HexLower == DecDigits \o <<"a", "b", "c", "d", "e", "f">>
HexUpper == DecDigits \o <<"A", "B", "C", "D", "E", "F">>

IsDecDigit(c) == In(c, DecDigits)
IsHexDigit(c) == In(c, HexLower) \/ In(c, HexUpper)

DigitValue(c) ==
    IF In(c, HexLower)
    THEN (CHOOSE k \in DOMAIN HexLower : HexLower[k] = c) - 1
    ELSE (CHOOSE k \in DOMAIN HexUpper : HexUpper[k] = c) - 1

\* the number the digits q denote in the given base
RECURSIVE Numeral(_, _)
Numeral(q, base) ==
    IF q = <<>>
    THEN 0
    ELSE base * Numeral(SubSeq(q, 1, Len(q) - 1), base) + DigitValue(q[Len(q)])

RECURSIVE Power(_, _)
Power(base, n) == IF n = 0 THEN 1 ELSE base * Power(base, n - 1)

AllDecDigits(q) == \A k \in DOMAIN q : IsDecDigit(q[k])
AllHexDigits(q) == \A k \in DOMAIN q : IsHexDigit(q[k])

IsNegative(q) == q # <<>> /\ q[1] = "-"
Unsigned(q) == IF q # <<>> /\ q[1] \in {"-", "+"} THEN Tail(q) ELSE q

\* the position of the first character of q that is one of marks, or 0
FirstOf(q, marks) ==
    IF \E k \in DOMAIN q : q[k] \in marks
    THEN CHOOSE k \in DOMAIN q :
            /\ q[k] \in marks
            /\ \A j \in 1..(k - 1) : q[j] \notin marks
    ELSE 0

Before(q, k) == IF k = 0 THEN q ELSE SubSeq(q, 1, k - 1)
After(q, k) == IF k = 0 THEN <<>> ELSE SubSeq(q, k + 1, Len(q))

\* mantissa and exponent text of a float literal, sign removed
Mantissa(q) == Before(Unsigned(q), FirstOf(Unsigned(q), {"e", "E"}))
Exponent(q) == After(Unsigned(q), FirstOf(Unsigned(q), {"e", "E"}))
HasExponent(q) == FirstOf(Unsigned(q), {"e", "E"}) # 0
IntPart(q) == Before(Mantissa(q), FirstOf(Mantissa(q), {"."}))
FracPart(q) == After(Mantissa(q), FirstOf(Mantissa(q), {"."}))

\* a conversion that never takes the text for a decimal number
FloatAcceptsNothing(q) == FALSE

\* float(id_string) does not raise ValueError
FloatAccepts(q) ==
    /\ AllDecDigits(IntPart(q))
    /\ AllDecDigits(FracPart(q))
    /\ Len(IntPart(q)) + Len(FracPart(q)) >= 1
    /\ HasExponent(q) =>
          /\ Unsigned(Exponent(q)) # <<>>
          /\ AllDecDigits(Unsigned(Exponent(q)))

\* int(float(id_string))
IntOfFloat(q) ==
    LET digits == Numeral(IntPart(q) \o FracPart(q), 10)
        e      == IF IsNegative(Exponent(q))
                  THEN 0 - Numeral(Unsigned(Exponent(q)), 10)
                  ELSE Numeral(Unsigned(Exponent(q)), 10)
        shift  == e - Len(FracPart(q))
        size   == IF shift >= 0
                  THEN digits * Power(10, shift)
                  ELSE digits \div Power(10, 0 - shift)
    IN  IF IsNegative(q) THEN 0 - size ELSE size

\* the hexadecimal digits of the text, sign and 0x removed
HexBody(q) ==
    IF /\ Len(Unsigned(q)) >= 2
       /\ Unsigned(q)[1] = "0"
       /\ Unsigned(q)[2] \in {"x", "X"}
    THEN SubSeq(Unsigned(q), 3, Len(Unsigned(q)))
    ELSE Unsigned(q)

\* int(id_string, 16) does not raise ValueError
HexAccepts(q) == HexBody(q) # <<>> /\ AllHexDigits(HexBody(q))

\* int(id_string, 16)
IntOfHex(q) ==
    IF IsNegative(q) THEN 0 - Numeral(HexBody(q), 16) ELSE Numeral(HexBody(q), 16)

\* lines 211-212, the try block
TryFloat ==
    /\ conversion.pc = "try"
    /\ conversion' =
          IF FloatAccepts(conversion.id_string)
          THEN [conversion EXCEPT
                   !.pc = "returned",
                   !.out = Some(IntOfFloat(conversion.id_string))]
          ELSE [conversion EXCEPT !.pc = "except"]
    /\ UNCHANGED <<run, analysis, consistency, array>>

\* lines 213-216, the handler: a ValueError raised in it is not caught
ExceptHex ==
    /\ conversion.pc = "except"
    /\ conversion' =
          IF HexAccepts(conversion.id_string)
          THEN [conversion EXCEPT
                   !.pc = "returned",
                   !.out = Some(IntOfHex(conversion.id_string))]
          ELSE [conversion EXCEPT !.pc = "raised"]
    /\ UNCHANGED <<run, analysis, consistency, array>>

-----------------------------------------------------------------------------
(* XmlEnumParser.check_enum_values and is_attribute_consistent              *)
(* (Autocoders/Python/src/fprime_ac/parsers/XmlEnumParser.py).  The        *)
(* variable consistency holds one call: element_tree is the sequence       *)
(* element_tree.iter() yields, the root first and then its descendants in  *)
(* document order; an element is its tag and the set of its attribute      *)
(* names.                                                                  *)

NoConsistency ==
    [element_tree |-> <<>>, val_name |-> "", pc |-> "idle", next |-> 0,
     has_value |-> 0, total |-> 0, result |-> None]

\* lines 162-163: the counters of a call on element_tree and val_name
ConsistencyOf(element_tree, val_name) ==
    [element_tree |-> element_tree, val_name |-> val_name, pc |-> "iter",
     next |-> 1, has_value |-> 0, total |-> 0, result |-> None]

\* lines 164-168: one iteration of the loop over element_tree.iter()
IterStep ==
    /\ consistency.pc = "iter"
    /\ consistency.next <= Len(consistency.element_tree)
    /\ LET enum_item == consistency.element_tree[consistency.next]
           counted == enum_item.tag = "item"
           carries == consistency.val_name \in enum_item.keys
       IN consistency' =
             [consistency EXCEPT
                 !.next = @ + 1,
                 !.total = IF counted THEN @ + 1 ELSE @,
                 !.has_value = IF counted /\ carries THEN @ + 1 ELSE @]
    /\ UNCHANGED <<run, analysis, conversion, array>>

\* line 170: has_value in (0, total)
ConsistentAllOnly(has_value, total) == has_value = total
Consistent(has_value, total) == has_value \in {0, total}

\* line 170, the return of is_attribute_consistent
ConsistentReturn ==
    /\ consistency.pc = "iter"
    /\ consistency.next > Len(consistency.element_tree)
    /\ consistency' =
          [consistency EXCEPT
              !.pc = "returned",
              !.result = Some(Consistent(consistency.has_value,
                                         consistency.total))]
    /\ UNCHANGED <<run, analysis, conversion, array>>

\* lines 153-155: check_enum_values, which asks about the attribute "value"
\* and raises FprimeXmlException when the answer is False
CheckEnumValues ==
    /\ consistency.pc = "returned"
    /\ consistency.val_name = "value"
    /\ consistency' =
          [consistency EXCEPT
              !.pc = IF Val(consistency.result) THEN "passed" ELSE "raised"]
    /\ UNCHANGED <<run, analysis, conversion, array>>

-----------------------------------------------------------------------------
(* The type id XmlArrayParser.__init__ gives an array definition            *)
(* (Autocoders/Python/src/fprime_ac/parsers/XmlArrayParser.py).  The       *)
(* variable array holds one construction: attrib_typeid is the typeid      *)
(* attribute of the root element, or None; tags are the root's children,   *)
(* each a tag and its text.                                                *)

NoArray ==
    [attrib_typeid |-> None, tags |-> <<>>, pc |-> "idle", next |-> 0,
     type |-> None, size |-> None, type_id |-> None]

\* lines 70-73 and 115: the fields as the constructor initialises them
ArrayOf(attrib_typeid, tags) ==
    [attrib_typeid |-> attrib_typeid, tags |-> tags, pc |-> "tags",
     next |-> 1, type |-> None, size |-> None, type_id |-> None]

\* lines 126-151: one iteration of the loop over the root's children
TagStep ==
    /\ array.pc = "tags"
    /\ array.next <= Len(array.tags)
    /\ LET array_tag == array.tags[array.next]
       IN array' =
             [array EXCEPT
                 !.next = @ + 1,
                 !.size = IF array_tag.tag = "size"
                          THEN Some(array_tag.text) ELSE @,
                 !.type = IF array_tag.tag = "type"
                          THEN Some(array_tag.text) ELSE @,
                 !.type_id = IF array_tag.tag = "typeid"
                             THEN Some(array_tag.text) ELSE @]
    /\ UNCHANGED <<run, analysis, conversion, consistency>>

\* lines 157-160: "0x" and the last eight characters of the upper-cased
\* SHA-256 digest of the serialized root element; the digest is kept as
\* the term of the text it was taken of
HashedTypeId(attrib_typeid, tags) ==
    [sha256_tail_of |-> <<attrib_typeid, tags>>]

\* lines 156-160: the id is generated unless the root element has a
\* typeid attribute
GenerateTypeId ==
    /\ array.pc = "tags"
    /\ array.next > Len(array.tags)
    /\ array' =
          [array EXCEPT
              !.pc = "constructed",
              !.type_id = IF IsNone(array.attrib_typeid)
                          THEN Some(HashedTypeId(array.attrib_typeid,
                                                 array.tags))
                          ELSE @]
    /\ UNCHANGED <<run, analysis, conversion, consistency>>

\* lines 222-223
get_type_id == array.type_id

-----------------------------------------------------------------------------
(* The run *)

\* a factory as constructed, about to be given the parsed topology topo
RunInit(topo) ==
    /\ generate_new_IDS = TRUE
    /\ assembly_base_id = topo.base_id
    /\ assembly_window = topo.window
    /\ instances = topo.instances
    /\ pc = "idle"
    /\ id = 0
    /\ initial_comp_with_ID = <<>>
    /\ initial_comp_without_ID = <<>>
    /\ out_base_ids_list = <<>>
    /\ with_ID_obj = None
    /\ without_ID_obj = None
    /\ prev_id = 0
    /\ prev_window = 0
    /\ save_buffer = <<>>
    /\ log_file_written = FALSE
    /\ topology = None
    /\ error = "none"
    /\ range_calls = <<>>

Init ==
    /\ \E topo \in Topologies : RunInit(topo)
    /\ analysis = NoAnalysis
    /\ conversion = NoConversion
    /\ consistency = NoConsistency
    /\ array = NoArray

allocation == <<id, initial_comp_with_ID, initial_comp_without_ID,
                out_base_ids_list, with_ID_obj, without_ID_obj, prev_id,
                prev_window>>
inputs == <<assembly_base_id, assembly_window>>
outputs == <<save_buffer, log_file_written, topology>>
calls == <<analysis, conversion, consistency, array>>

\* set_generate_ID(value), called before create()
SetGenerateID(value) ==
    /\ pc = "idle"
    /\ generate_new_IDS' = value
    /\ UNCHANGED <<inputs, range_calls, calls, instances, pc, allocation,
                   outputs, error>>

\* a create() that allocates whatever set_generate_ID was given
CreateIgnoringSwitch ==
    /\ pc = "idle"
    /\ instances' =
          [k \in DOMAIN instances |->
              IF instances[k].type \in KnownTypes
              THEN [instances[k] EXCEPT !.component_object =
                       Some(instances[k].type)]
              ELSE instances[k]]
    /\ IF TRUE
       THEN /\ pc' = "pass1"
            /\ id' = IF assembly_base_id <= 0 THEN 1 ELSE assembly_base_id
       ELSE /\ pc' = "ports"
            /\ id' = id
    /\ UNCHANGED <<generate_new_IDS, inputs, range_calls, calls,
                   initial_comp_with_ID,
                   initial_comp_without_ID, out_base_ids_list, with_ID_obj,
                   without_ID_obj, prev_id, prev_window, outputs, error>>

\* create(), lines 125-159 and 384-399: every instance of a known type gets
\* its component object; then __compute_base_ids is entered, or skipped.
Create ==
    /\ pc = "idle"
    /\ instances' =
          [k \in DOMAIN instances |->
              IF instances[k].type \in KnownTypes
              THEN [instances[k] EXCEPT !.component_object =
                       Some(instances[k].type)]
              ELSE instances[k]]
    /\ IF generate_new_IDS
       THEN /\ pc' = "pass1"
            /\ id' = IF assembly_base_id <= 0 THEN 1 ELSE assembly_base_id
       ELSE /\ pc' = "ports"
            /\ id' = id
    /\ UNCHANGED <<generate_new_IDS, inputs, range_calls, calls,
                   initial_comp_with_ID,
                   initial_comp_without_ID, out_base_ids_list, with_ID_obj,
                   without_ID_obj, prev_id, prev_window, outputs, error>>

\* an analysis that is skipped for a component object analysed before
RangeCallsCached(made, comp_xml) ==
    IF In(comp_xml, made) THEN made ELSE Append(made, comp_xml)

\* __set_base_id_list line 618: the range of the instance's component
\* object is computed in every call, whatever was computed before
RangeCalls(made, comp_xml) == Append(made, comp_xml)

\* Pass 1, one iteration of "for inst in instances"
Pass1NextIndex == Len(initial_comp_with_ID) + Len(initial_comp_without_ID) + 1

Pass1Step ==
    /\ pc = "pass1"
    /\ Pass1NextIndex <= Len(instances)
    /\ range_calls' =
          RangeCalls(range_calls, instances[Pass1NextIndex].component_object)
    /\ LET inst == instances[Pass1NextIndex]
           r    == SetBaseIdList(id, assembly_window, inst, Pass1NextIndex)
       IN  IF r.outcome # "return"
           THEN /\ pc' = "aborted"
                /\ error' = r.outcome
                /\ UNCHANGED <<initial_comp_with_ID, initial_comp_without_ID>>
           ELSE /\ IF IsNone(inst.base_id)
                   THEN /\ initial_comp_without_ID' =
                               Append(initial_comp_without_ID, r.t)
                        /\ UNCHANGED initial_comp_with_ID
                   ELSE /\ initial_comp_with_ID' =
                               Append(initial_comp_with_ID, r.t)
                        /\ UNCHANGED initial_comp_without_ID
                /\ UNCHANGED <<pc, error>>
    /\ UNCHANGED <<generate_new_IDS, inputs, calls,
                   instances, id, out_base_ids_list,
                   with_ID_obj, without_ID_obj, prev_id, prev_window, outputs>>

\* Pass 2, the two sorts
Pass2Sort ==
    /\ pc = "pass1"
    /\ Pass1NextIndex > Len(instances)
    /\ initial_comp_with_ID' =
          StableSort(initial_comp_with_ID,
                     [k \in DOMAIN initial_comp_with_ID |->
                         BaseKey(initial_comp_with_ID[k])])
    /\ initial_comp_without_ID' =
          StableSort(initial_comp_without_ID,
                     [k \in DOMAIN initial_comp_without_ID |->
                         WindowKey(initial_comp_without_ID[k])])
    /\ pc' = "pass3"
    /\ UNCHANGED <<generate_new_IDS, inputs, range_calls, calls,
                   instances, id, out_base_ids_list,
                   with_ID_obj, without_ID_obj, prev_id, prev_window, outputs,
                   error>>


\* Pass 3, the check of the sorted with_ID list: prev_id and prev_window
\* start at 0 and follow the list.
Pass3PrevEnd(s, k) ==
    IF k = 1 THEN 0 + 0 ELSE Val(s[k - 1].base_id) + s[k - 1].window

\* a check that also rejects a candidate starting where the previous ends
Pass3CollidesOnTouch(s, k) == Val(s[k].base_id) <= Pass3PrevEnd(s, k)

Pass3Collides(s, k) == Val(s[k].base_id) < Pass3PrevEnd(s, k)

\* a check that prints the table header before it raises
Pass3CheckAfterHeader ==
    /\ pc = "pass3"
    /\ IF \E k \in DOMAIN initial_comp_with_ID :
             Pass3Collides(initial_comp_with_ID, k)
       THEN /\ pc' = "aborted"
            /\ error' = "BaseIdCollision"
            /\ save_buffer' = <<[kind |-> "header"]>>
            /\ UNCHANGED <<prev_id, prev_window>>
       ELSE /\ pc' = "pass4"
            /\ prev_id' = id
            /\ prev_window' = 0
            /\ error' = error
            /\ save_buffer' = save_buffer
    /\ UNCHANGED <<generate_new_IDS, inputs, range_calls, calls,
                   instances, id,
                   initial_comp_with_ID, initial_comp_without_ID,
                   out_base_ids_list, with_ID_obj, without_ID_obj,
                   log_file_written, topology>>

Pass3Check ==
    /\ pc = "pass3"
    /\ IF \E k \in DOMAIN initial_comp_with_ID :
             Pass3Collides(initial_comp_with_ID, k)
       THEN /\ pc' = "aborted"
            /\ error' = "BaseIdCollision"
            /\ UNCHANGED <<prev_id, prev_window>>
       ELSE /\ pc' = "pass4"
            /\ prev_id' = id
            /\ prev_window' = 0
            /\ error' = error
    /\ UNCHANGED <<generate_new_IDS, inputs, range_calls, calls,
                   instances, id,
                   initial_comp_with_ID, initial_comp_without_ID,
                   out_base_ids_list, with_ID_obj, without_ID_obj, outputs>>

\* a loop condition that forgets the two pending candidates
Pass4ContinuesWhileQueued ==
    ~ ( /\ initial_comp_with_ID = <<>>
        /\ initial_comp_without_ID = <<>> )

\* Pass 4, the merge loop
Pass4Continues ==
    ~ ( /\ initial_comp_with_ID = <<>>
        /\ initial_comp_without_ID = <<>>
        /\ IsNone(with_ID_obj)
        /\ IsNone(without_ID_obj) )

\* a merge whose fit test forgets the floating candidate's window
TakeWithoutIgnoringWindow(fixed, floating, next_poss_id) ==
    \/ IsNone(fixed) /\ ~IsNone(floating)
    \/ /\ ~IsNone(fixed)
       /\ ~IsNone(floating)
       /\ next_poss_id <= Val(Val(fixed).base_id)

\* a merge whose fit test leaves out the exact fit
TakeWithoutStrictFit(fixed, floating, next_poss_id) ==
    \/ IsNone(fixed) /\ ~IsNone(floating)
    \/ /\ ~IsNone(fixed)
       /\ ~IsNone(floating)
       /\ next_poss_id + Val(floating).window < Val(Val(fixed).base_id)

\* the branch of the if/elif chain that assigns the floating candidate
TakeWithout(fixed, floating, next_poss_id) ==
    \/ IsNone(fixed) /\ ~IsNone(floating)
    \/ /\ ~IsNone(fixed)
       /\ ~IsNone(floating)
       /\ next_poss_id + Val(floating).window <= Val(Val(fixed).base_id)

\* an entry built anew for a floating candidate, without its calculated
\* range
AssignWithoutRange(t, next_poss_id) ==
    [t EXCEPT !.base_id = Some(next_poss_id), !.range = None]

\* the entry appended for a floating candidate: its base id is written
AssignWithout(t, next_poss_id) == [t EXCEPT !.base_id = Some(next_poss_id)]

\* a merge that packs the fixed candidates too
AssignWithRelocated(t, next_poss_id) == [t EXCEPT !.base_id = Some(next_poss_id)]

\* the entry appended for a fixed candidate
AssignWith(t, next_poss_id) == t

Pass4Step ==
    /\ pc = "pass4"
    /\ Pass4Continues
    /\ LET popWith    == initial_comp_with_ID # <<>> /\ IsNone(with_ID_obj)
           popWithout == initial_comp_without_ID # <<>> /\ IsNone(without_ID_obj)
           fixed      == IF popWith THEN Some(Head(initial_comp_with_ID))
                                    ELSE with_ID_obj
           floating   == IF popWithout THEN Some(Head(initial_comp_without_ID))
                                       ELSE without_ID_obj
           next_poss_id == prev_id + prev_window
           entry      == IF TakeWithout(fixed, floating, next_poss_id)
                         THEN AssignWithout(Val(floating), next_poss_id)
                         ELSE AssignWith(Val(fixed), next_poss_id)
       IN  /\ initial_comp_with_ID' =
                 IF popWith THEN Tail(initial_comp_with_ID)
                            ELSE initial_comp_with_ID
           /\ initial_comp_without_ID' =
                 IF popWithout THEN Tail(initial_comp_without_ID)
                               ELSE initial_comp_without_ID
           /\ IF TakeWithout(fixed, floating, next_poss_id)
              THEN /\ without_ID_obj' = None
                   /\ with_ID_obj' = fixed
              ELSE /\ with_ID_obj' = None
                   /\ without_ID_obj' = floating
           /\ out_base_ids_list' = Append(out_base_ids_list, entry)
           /\ prev_id' = Val(entry.base_id)
           /\ prev_window' = entry.window
    /\ UNCHANGED <<generate_new_IDS, inputs, range_calls, calls,
                   instances, pc, id, outputs, error>>

\* Pass 5, the id table: the header is printed when the first entry is
\* met (or after the loop, for an empty list), every entry but the last
\* with the distance to its successor, the last one with "inf.".
TableRow(t, actual_window_size) ==
    [kind    |-> "row",
     name    |-> t.name,
     base_id |-> Val(t.base_id),
     window  |-> t.window,
     default |-> IsNone(instances[t.inst].base_id_window),
     actual  |-> actual_window_size,
     range   |-> t.range,
     amount  |-> t.amount]

TableHeader == [kind |-> "header"]
TableComments == [kind |-> "comments"]
Inf == [inf |-> TRUE, size |-> 0]
Window(n) == [inf |-> FALSE, size |-> n]

\* __print_base_id_table: the header for None, a data row for a tuple
PrintBaseIdTable(base_id_tuple, actual_window_size, buffer) ==
    IF IsNone(base_id_tuple)
    THEN Append(buffer, TableHeader)
    ELSE Append(buffer, TableRow(Val(base_id_tuple), actual_window_size))

\* a report that prints the free gap behind every entry
ActWindGap(prev, t) ==
    Window(Val(t.base_id) - (Val(prev.base_id) + prev.window))

\* a table that repeats the requested window as the actual one
ActWindRequested(prev, t) == Window(prev.window)

\* "act_wind = t[1] - prev[1]"
ActWind(prev, t) == Window(Val(t.base_id) - Val(prev.base_id))

\* the loop of lines 480-486 from entry k on, and the print after it
RECURSIVE TableLoop(_, _, _, _)
TableLoop(out, k, prev, buffer) ==
    IF k > Len(out)
    THEN PrintBaseIdTable(prev, Inf, buffer)
    ELSE TableLoop(out, k + 1, Some(out[k]),
                   PrintBaseIdTable(prev,
                                    IF IsNone(prev) THEN Window(0)
                                    ELSE ActWind(Val(prev), out[k]),
                                    buffer))

TableRows(out) == TableLoop(out, 1, None, <<>>)

Pass5Report(generate_list_file) ==
    /\ pc = "pass4"
    /\ ~Pass4Continues
    /\ save_buffer' = TableRows(out_base_ids_list) \o <<TableComments>>
    /\ log_file_written' = generate_list_file
    /\ pc' = "ports"
    /\ UNCHANGED <<generate_new_IDS, inputs, range_calls, calls,
                   instances, allocation, topology,
                   error>>

\* create(), lines 161-205: the ports are wired and the topology is built
\* around instance_name_base_id_list.
CreateReturn ==
    /\ pc = "ports"
    /\ topology' = Some(IF generate_new_IDS THEN out_base_ids_list ELSE <<>>)
    /\ pc' = "done"
    /\ UNCHANGED <<generate_new_IDS, inputs, range_calls, calls,
                   instances, allocation,
                   save_buffer, log_file_written, error>>

Next ==
    \/ \E value \in BOOLEAN : SetGenerateID(value)
    \/ Create
    \/ Pass1Step
    \/ Pass2Sort
    \/ Pass3Check
    \/ Pass4Step
    \/ \E generate_list_file \in BOOLEAN : Pass5Report(generate_list_file)
    \/ CreateReturn

Spec == Init /\ [][Next]_vars

\* create() is a sequential routine: a run that can take a step takes it.
\* The runs start from the scenario topologies.
ScenarioInit ==
    /\ \E topo \in ScenarioTopologies : RunInit(topo)
    /\ analysis = NoAnalysis
    /\ conversion = NoConversion
    /\ consistency = NoConsistency
    /\ array = NoArray

FairSpec == ScenarioInit /\ [][Next]_vars /\ WF_vars(Next)

-----------------------------------------------------------------------------
(* The conversion of one id literal on its own *)

\* create() has not been given a topology
NoTopology == [base_id |-> 0, window |-> 0, instances |-> <<>>]

LiteralChars == {"0", "1", "2", "6", "A", "x", ".", "G", "-"}

\* literals with an exponent, and texts with an e that float() rejects
ExponentLiterals ==
    {<<m, "e", x>> : m \in {"1", "2", "6"}, x \in {"0", "1", "2"}}
      \cup {<<"1", ".", "2", "6", "e", "1">>, <<"2", "6", "E", "-", "1">>,
             <<"-", "2", "e", "+", "1">>, <<"1", "e">>, <<"e", "1">>,
             <<"0", "x", "e">>, <<"1", "e", "-">>, <<".", "e", "1">>}

\* the texts of up to n characters, and the exponent literals
Literals(n) ==
    UNION {[1..k -> LiteralChars] : k \in 0..n} \cup ExponentLiterals

ConversionInit ==
    /\ RunInit(NoTopology)
    /\ analysis = NoAnalysis
    /\ \E id_string \in Literals(MaxLiteralLen) :
          conversion = [id_string |-> id_string, pc |-> "try", out |-> None]
    /\ consistency = NoConsistency
    /\ array = NoArray

ConversionNext ==
    \/ TryFloat
    \/ ExceptHex

ConversionSpec == ConversionInit /\ [][ConversionNext]_vars

-----------------------------------------------------------------------------
(* The analysis of one component definition on its own *)

ItemIds == 0..MaxItemId

\* the lists of up to two event, channel or command ids drawn from ids
NoItem == {<<>>}
OneItem(ids) == {<<a>> : a \in ids}
TwoItems(ids) == {<<a, b>> : a, b \in ids}

Parameters(ids) == [id : ids, set_opcode : ids, save_opcode : ids]

ComponentDefinition(ev, ch, cm, pa) ==
    [events |-> ev, channels |-> ch, commands |-> cm, parameters |-> pa]

\* the parsed definitions whose ids and opcodes are drawn from ids, and
\* the definitions of the dictionary
ComponentDefinitions(ids) ==
    {ComponentDefinition(ev, ch, cm, pa) :
        ev \in NoItem \cup OneItem(ids) \cup TwoItems(ids),
        ch \in NoItem \cup OneItem(ids),
        cm \in NoItem \cup OneItem(ids),
        pa \in NoItem \cup {<<p>> : p \in Parameters(ids)}}
      \cup {ComponentDefinition(<<>>, <<>>, cm, <<p, q>>) :
               cm \in NoItem \cup OneItem(ids), p, q \in Parameters(ids)}
      \cup {ComponentDefinition(<<>>, ch, cm, <<>>) :
               ch \in NoItem \cup TwoItems(ids),
               cm \in NoItem \cup TwoItems(ids)}
      \cup {componentXMLNameToComponent[ty] : ty \in KnownTypes}

\* an instance without component object, or with a parsed definition
ComponentObjects(ids) == {None} \cup {Some(c) : c \in ComponentDefinitions(ids)}

AnalysisInit ==
    /\ RunInit(NoTopology)
    /\ \E comp_xml \in ComponentObjects(ItemIds) :
          analysis = AnalysisOf(comp_xml, "running")
    /\ conversion = NoConversion
    /\ consistency = NoConsistency
    /\ array = NoArray

AnalysisNext ==
    \/ EventStep
    \/ ChannelStep
    \/ CommandStep
    \/ ParameterStep
    \/ RangeReturn
    \/ AmountStep

AnalysisSpec == AnalysisInit /\ [][AnalysisNext]_vars

-----------------------------------------------------------------------------
(* The check of one enum definition on its own *)

AttributeNames == {"value", "comment"}

\* an element: the root, an item, or a comment
EnumElements == [tag : {"item", "comment"}, keys : SUBSET AttributeNames]

\* the trees of a root and up to n further elements
EnumTrees(n) ==
    {<<[tag |-> "enum", keys |-> {"name"}]>> \o rest :
        rest \in UNION {[1..k -> EnumElements] : k \in 0..n}}

EnumInit ==
    /\ RunInit(NoTopology)
    /\ analysis = NoAnalysis
    /\ conversion = NoConversion
    /\ array = NoArray
    /\ \E element_tree \in EnumTrees(MaxEnumTags), val_name \in AttributeNames :
          consistency = ConsistencyOf(element_tree, val_name)

EnumNext ==
    \/ IterStep
    \/ ConsistentReturn
    \/ CheckEnumValues

EnumSpec == EnumInit /\ [][EnumNext]_vars

-----------------------------------------------------------------------------
(* The construction of one array definition on its own *)

ArrayTags ==
    {[tag |-> "typeid", text |-> "0x10"], [tag |-> "typeid", text |-> "0x20"],
     [tag |-> "type", text |-> "U32"], [tag |-> "size", text |-> "3"],
     [tag |-> "comment", text |-> "c"]}

\* the children of the root: up to n tags
ArrayChildren(n) == UNION {[1..k -> ArrayTags] : k \in 0..n}

ArrayInit ==
    /\ RunInit(NoTopology)
    /\ analysis = NoAnalysis
    /\ conversion = NoConversion
    /\ consistency = NoConsistency
    /\ \E attrib_typeid \in {None, Some("0x30")},
          tags \in ArrayChildren(MaxArrayTags) :
          array = ArrayOf(attrib_typeid, tags)

ArrayNext ==
    \/ TagStep
    \/ GenerateTypeId

ArraySpec == ArrayInit /\ [][ArrayNext]_vars


-----------------------------------------------------------------------------
(* Notions the properties share *)

\* __compute_base_ids has returned its list
Allocated == pc \in {"ports", "done"} /\ generate_new_IDS

\* Pass 3 has been decided, one way or the other
Pass3Decided ==
    \/ pc = "aborted" /\ error = "BaseIdCollision"
    \/ pc = "pass4"
    \/ Allocated

\* the assembly base id after the clamp of lines 396-398
Floor == IF assembly_base_id >= 1 THEN assembly_base_id ELSE 1

HasExplicitBase(inst) == inst.base_id # None
FixedIdx == {k \in DOMAIN instances : HasExplicitBase(instances[k])}
FloatIdx == {k \in DOMAIN instances : ~HasExplicitBase(instances[k])}

\* what the instance's text asks for
AskedBase(inst) == Abs(Val(inst.base_id))
AskedWindow(inst) == Abs(Val(inst.base_id_window))

Out == out_base_ids_list
Base(k) == Val(Out[k].base_id)
EntryOf(name) == CHOOSE k \in DOMAIN Out : Out[k].name = name
InResult(name) == \E k \in DOMAIN Out : Out[k].name = name
InstOf(t) == instances[t.inst]
IsFixedEntry(k) == HasExplicitBase(InstOf(Out[k]))

-----------------------------------------------------------------------------
(* C1: in every successful allocation result the windows of two entries    *)
(* never overlap: for i before j in the result,                            *)
(* base_id(j) >= base_id(i) + window(i).                                   *)
C1_NoOverlap ==
    Allocated =>
        \A i, j \in DOMAIN Out :
            i < j => Base(j) >= Base(i) + Out[i].window

\* a floating entry with a positive window was packed in front of a fixed
\* one, and a fixed one lies in front of a floating one
C1_Witness ==
    /\ Allocated
    /\ \E i, j, k \in DOMAIN Out :
          /\ i < j /\ j < k
          /\ ~IsFixedEntry(i) /\ Out[i].window > 0
          /\ IsFixedEntry(j) /\ Out[j].window > 0
          /\ ~IsFixedEntry(k)

(* C2: the engine never relocates a fixed candidate: every instance with   *)
(* an explicit base id is in the result with the base id and window the    *)
(* resolver gave it; when every instance is fixed the result is exactly    *)
(* the resolved candidates, in ascending base id order.                    *)
\* the candidate the resolver hands to the engine for an instance
Candidate(k) == SetBaseIdList(id, assembly_window, instances[k], k).t

C2_FixedNeverRelocated ==
    Allocated =>
        /\ \A k \in FixedIdx :
              \E j \in DOMAIN Out : Out[j] = Candidate(k)
        /\ FloatIdx = {} =>
              /\ Len(Out) = Len(instances)
              /\ \A j \in 1..(Len(Out) - 1) : Base(j) <= Base(j + 1)

\* two fixed instances, declared in descending base id order, with a gap
\* in front of the first and between them
C2_Witness ==
    /\ Allocated
    /\ FloatIdx = {}
    /\ Len(Out) >= 2
    /\ Base(1) > Floor
    /\ Base(2) > Base(1) + Out[1].window
    /\ Out[1].name = instances[2].name


(* C3 as claimed: the collision error is raised exactly when two distinct  *)
(* fixed candidates i # j have base(i) <= base(j) < base(i) + window(i),   *)
(* whatever the declaration order.                                         *)
SeqSet(q) == {q[k] : k \in DOMAIN q}

\* the fixed candidates the engine holds, assigned or not
FixedHeld ==
    SeqSet(initial_comp_with_ID) \cup SeqSet(with_ID_obj)
        \cup {Out[k] : k \in {j \in DOMAIN Out : IsFixedEntry(j)}}

SortedBefore(t, u) ==
    \/ Val(t.base_id) < Val(u.base_id)
    \/ Val(t.base_id) = Val(u.base_id) /\ t.inst < u.inst

C4_BackToBack ==
    (Allocated /\ FixedIdx = {}) =>
        /\ Len(Out) = Len(instances)
        /\ Out # <<>> => Base(1) = Floor
        /\ \A k \in 1..(Len(Out) - 1) :
              /\ Base(k + 1) = Base(k) + Out[k].window
              /\ Out[k].window <= Out[k + 1].window

\* two floating instances declared with the larger window first
C4_Witness ==
    /\ Allocated
    /\ FixedIdx = {}
    /\ Len(Out) >= 2
    /\ Out[1].window > 0
    /\ Out[1].window < Out[2].window
    /\ Out[1].name = instances[2].name


\* the result as (name, base id, window) triples
Triples == [k \in DOMAIN Out |-> <<Out[k].name, Base(k), Out[k].window>>]

InstanceIs(k, n, b, w, ty) ==
    /\ instances[k].name = n
    /\ instances[k].base_id = b
    /\ instances[k].base_id_window = w
    /\ instances[k].type = ty

(* C5 as claimed: assembly base id 0, assembly window 100, A floating with *)
(* required range 20, B fixed at 50 with window 10: the result is          *)
(* [A at 1, window 20], [B at 50, window 10].                              *)
IsScenarioAB ==
    /\ assembly_base_id = 0
    /\ assembly_window = 100
    /\ Len(instances) = 2
    /\ InstanceIs(1, "A", None, None, "Radio")
    /\ InstanceIs(2, "B", Some(50), Some(10), "Sensor")

C5_ScenarioABAsClaimed ==
    (IsScenarioAB /\ Allocated) =>
        Triples = << <<"A", 1, 20>>, <<"B", 50, 10>> >>

(* C5 as amended: in that scenario A's window is the assembly window 100,  *)
(* which exceeds its required range 20, so A does not fit in front of B:   *)
(* the result is [B at 50, window 10], [A at 60, window 100].              *)
C5_ScenarioAB ==
    (IsScenarioAB /\ Allocated) =>
        Triples = << <<"B", 50, 10>>, <<"A", 60, 100>> >>

C5_Witness ==
    /\ IsScenarioAB
    /\ pc = "done"
    /\ topology = Some(Out)
    /\ \E k \in DOMAIN Out : Out[k].name = "A" /\ Out[k].range = Some(20)

(* C6 as claimed: C fixed at 10 with window 20 and D fixed at 15 with      *)
(* window 5 always end in the base-id collision error, for every assembly  *)
(* base id.                                                                *)
IsScenarioCD ==
    /\ Len(instances) = 2
    /\ InstanceIs(1, "C", Some(10), Some(20), "Sensor")
    /\ InstanceIs(2, "D", Some(15), Some(5), "Sensor")

FloatingWaiting == SeqSet(initial_comp_without_ID) \cup SeqSet(without_ID_obj)

Held == FixedHeld \cup FloatingWaiting \cup SeqSet(Out)

C9_WindowPriority ==
    \A t \in Held :
        IF InstOf(t).base_id_window # None
        THEN t.window = AskedWindow(InstOf(t))
        ELSE /\ t.range # None
             /\ t.window = IF assembly_window > Val(t.range)
                           THEN assembly_window
                           ELSE Val(t.range)

\* an explicit window below both the assembly window and the required
\* range is kept, next to a candidate that gets the assembly window
C9_Witness ==
    /\ pc = "pass3"
    /\ \E t \in Held :
          /\ InstOf(t).base_id_window # None
          /\ t.window < assembly_window
          /\ t.range # None
          /\ t.window < Val(t.range)
    /\ \E t \in Held :
          /\ InstOf(t).base_id_window = None
          /\ t.window = assembly_window
          /\ t.window > Val(t.range)

(* C10: an instance of an unknown component type does not abort model      *)
(* building: allocation completes and the instance is in the result with   *)
(* calculated range none and calculated amount none, with or without an    *)
(* explicit window.                                                        *)
UnknownIdx == {k \in DOMAIN instances : instances[k].type \notin KnownTypes}

C10_UnknownTypeNotFatal ==
    /\ pc = "aborted" /\ error # "BaseIdCollision" =>
          \A k \in UnknownIdx : Pass1NextIndex # k
    /\ Allocated =>
          \A k \in UnknownIdx :
              /\ InResult(instances[k].name)
              /\ Out[EntryOf(instances[k].name)].range = None
              /\ Out[EntryOf(instances[k].name)].amount = None

(* C11: an undersized window is a warning only: when the resolved window   *)
(* is smaller than the component's required range, resolution does not     *)
(* abort and does not change the window; the candidate, and the result     *)
(* entry of a completed allocation, carry the window exactly as resolved.  *)
\* the explicit window of the instance is below its component's range
Undersized(inst) ==
    /\ inst.base_id_window # None
    /\ inst.type \in KnownTypes
    /\ ~ComputeComponentBaseIdRange(Some(inst.type)).exit
    /\ ComputeComponentBaseIdRange(Some(inst.type)).range # None
    /\ AskedWindow(inst) < Val(ComputeComponentBaseIdRange(Some(inst.type)).range)

\* the candidate was resolved from such an instance
UndersizedCandidate(t) ==
    /\ InstOf(t).base_id_window # None
    /\ t.range # None
    /\ AskedWindow(InstOf(t)) < Val(t.range)

\* the calls of __set_base_id_list that have returned
Resolved ==
    IF pc = "aborted" /\ error # "BaseIdCollision"
    THEN Len(range_calls) - 1
    ELSE Len(range_calls)

AnalysedDefinition == Val(analysis.comp_xml)
AnalysisHalted == analysis.pc \in {"exit", "returned", "done"}
AnalysisCompleted == analysis.pc \in {"returned", "done"}

AnalysisAgrees ==
    (AnalysisHalted /\ ~IsNone(analysis.comp_xml)) =>
        /\ analysis.pc = "exit" <=> ComponentIdCollision(AnalysedDefinition)
        /\ AnalysisCompleted =>
              analysis.range =
                 IF AllIds(AnalysedDefinition) = {}
                 THEN None
                 ELSE Some(SetMax(AllIds(AnalysedDefinition)) + 1)

(* C12: the analysis of a component aborts whenever two events share an    *)
(* id, two channels share an id, or two values among command opcodes,      *)
(* parameter set-opcodes and parameter save-opcodes are equal (a           *)
(* parameter's own set and save opcode included): when it completes,       *)
(* these are pairwise distinct.                                            *)
Distinct(q) == \A i, j \in DOMAIN q : i # j => q[i] # q[j]

\* the opcode space: commands, set-opcodes and save-opcodes together
OpcodeSpace(c) ==
    c.commands
      \o [k \in DOMAIN c.parameters |-> c.parameters[k].set_opcode]
      \o [k \in DOMAIN c.parameters |-> c.parameters[k].save_opcode]

C12_CollisionsAbort ==
    (AnalysisHalted /\ ~IsNone(analysis.comp_xml)) =>
        \/ analysis.pc = "exit"
        \/ /\ Distinct(AnalysedDefinition.events)
           /\ Distinct(AnalysedDefinition.channels)
           /\ Distinct(OpcodeSpace(AnalysedDefinition))

\* the analysis aborted on a component whose only equal pair is the save
\* opcode of its parameter and its command opcode, after the events and
\* the channel were accepted
C12_Witness ==
    /\ analysis.pc = "exit"
    /\ ~IsNone(analysis.comp_xml)
    /\ Len(AnalysedDefinition.events) = 2
    /\ Distinct(AnalysedDefinition.events)
    /\ Len(AnalysedDefinition.channels) = 1
    /\ Len(AnalysedDefinition.parameters) = 1
    /\ Len(AnalysedDefinition.commands) = 1
    /\ AnalysedDefinition.parameters[1].save_opcode
          = AnalysedDefinition.commands[1]
    /\ AnalysedDefinition.parameters[1].set_opcode
          # AnalysedDefinition.commands[1]

(* C13: an intra-component id collision (two events of one component both *)
(* declaring id 5) or a base-id collision aborts the run before any         *)
(* floating candidate has been assigned a base id, before the report is     *)
(* written and before any result or topology is returned; a report is       *)
(* never written in a run that ends in one of these errors.                 *)
FatalAllocationError == error \in {"SystemExit", "BaseIdCollision"}

C13_FatalBeforeOutput ==
    /\ FatalAllocationError =>
          /\ pc = "aborted"
          /\ Out = <<>>
          /\ \A t \in Held :
                ~HasExplicitBase(InstOf(t)) => t.base_id = None
          /\ save_buffer = <<>>
          /\ ~log_file_written
          /\ topology = None
    /\ (save_buffer # <<>> \/ log_file_written \/ topology # None) =>
          error = "none"

\* the run ended on the component with two events of id 5, after a
\* floating and a fixed candidate had been resolved
C13_Witness ==
    /\ pc = "aborted"
    /\ error = "SystemExit"
    /\ instances[Pass1NextIndex].type = "Faulty"
    /\ Component("Faulty").events = <<5, 5>>
    /\ initial_comp_with_ID # <<>>
    /\ initial_comp_without_ID # <<>>

(* C14: the required range of a component is one plus the maximum over    *)
(* all event ids, channel ids, command opcodes, parameter ids, parameter    *)
(* set-opcodes and parameter save-opcodes; it is none exactly when the      *)
(* component declares no items at all or could not be resolved.             *)
\* every id and opcode the definition declares
DeclaredValues(c) ==
    c.events \o c.channels \o OpcodeSpace(c)
             \o [k \in DOMAIN c.parameters |-> c.parameters[k].id]

Counts(c) ==
    << Len(c.events), Len(c.channels) + 2 * Len(c.parameters),
       Len(c.commands), Len(c.parameters) >>

AnalysesOf(ty) ==
    Cardinality({k \in DOMAIN range_calls : range_calls[k] = Some(ty)})

InstancesOf(ty) ==
    Cardinality({k \in DOMAIN instances : instances[k].type = ty})

Pass1Entered ==
    IF pc = "idle" \/ ~generate_new_IDS THEN 0
    ELSE IF pc = "pass1" THEN Pass1NextIndex - 1
    ELSE IF pc = "aborted" /\ error # "BaseIdCollision" THEN Pass1NextIndex
    ELSE Len(instances)

Unassigned ==
    Len(initial_comp_with_ID) + Len(initial_comp_without_ID)
        + Len(with_ID_obj) + Len(without_ID_obj)

C17_MergeTerminates ==
    /\ [](pc \in {"pass4", "ports", "done"} => error = "none")
    /\ [][(pc = "pass4" /\ pc' = "pass4") =>
             /\ Len(out_base_ids_list') = Len(out_base_ids_list) + 1
             /\ Unassigned' = Unassigned - 1
             /\ \A k \in DOMAIN out_base_ids_list :
                   out_base_ids_list'[k] = out_base_ids_list[k]]_vars
    /\ [](Allocated =>
             /\ Unassigned = 0
             /\ Len(Out) = Len(instances)
             /\ \A k \in DOMAIN instances :
                   Cardinality({j \in DOMAIN Out : Out[j].inst = k}) = 1)
    /\ (pc = "pass4") ~> Allocated

\* the loop has ended after a floating candidate was assigned while a
\* fixed one was pending, and the fixed one after it
C17_Witness ==
    /\ pc = "ports"
    /\ generate_new_IDS
    /\ Unassigned = 0
    /\ Len(Out) >= 4
    /\ \E k \in 1..(Len(Out) - 1) :
          ~IsFixedEntry(k) /\ IsFixedEntry(k + 1) /\ k + 1 = Len(Out)

(* C18: with id generation disabled by set_generate_ID(False), create()   *)
(* performs no allocation: no component analysis or collision check runs,   *)
(* no table is built or written, and the topology returned carries an       *)
(* empty base-id list; with the default setting the allocation is computed  *)
(* and attached to the topology.                                            *)
C18_GenerationSwitch ==
    /\ (~generate_new_IDS /\ pc # "idle") =>
          /\ pc \in {"ports", "done"}
          /\ range_calls = <<>>
          /\ Held = {}
          /\ save_buffer = <<>>
          /\ ~log_file_written
          /\ error = "none"
          /\ pc = "done" => topology = Some(<<>>)
    /\ (generate_new_IDS /\ pc = "done") =>
          /\ topology = Some(out_base_ids_list)
          /\ Len(out_base_ids_list) = Len(instances)
          /\ Len(range_calls) = Len(instances)

\* create() returned with generation disabled for a topology that, with
\* generation enabled, ends in the intra-component collision
C18_Witness ==
    /\ pc = "done"
    /\ ~generate_new_IDS
    /\ topology = Some(<<>>)
    /\ \E k \in DOMAIN instances :
          /\ instances[k].component_object = Some("Faulty")
          /\ ComputeComponentBaseIdRange(instances[k].component_object).exit

(* C19: the report starts with exactly one header row, followed by one    *)
(* logical row per result entry in result order; the actual window of       *)
(* every entry but the last is the next entry's base id minus its own, and  *)
(* that of the last entry is the unbounded marker; for an empty result the  *)
(* report holds the header and no data row.                                 *)
ReportKinds(kind) == {k \in DOMAIN save_buffer : save_buffer[k].kind = kind}

C19_ReportRows ==
    save_buffer # <<>> =>
        /\ save_buffer[1].kind = "header"
        /\ ReportKinds("header") = {1}
        /\ ReportKinds("row") = {k + 1 : k \in DOMAIN Out}
        /\ \A k \in DOMAIN Out :
              /\ save_buffer[k + 1].name = Out[k].name
              /\ save_buffer[k + 1].base_id = Base(k)
              /\ save_buffer[k + 1].window = Out[k].window
              /\ save_buffer[k + 1].actual =
                    IF k < Len(Out)
                    THEN [inf |-> FALSE, size |-> Base(k + 1) - Base(k)]
                    ELSE [inf |-> TRUE, size |-> 0]

\* a report of at least three entries, one of them followed by a gap
C19_Witness ==
    /\ save_buffer # <<>>
    /\ Len(Out) >= 3
    /\ \E k \in 1..(Len(Out) - 1) :
          /\ save_buffer[k + 1].kind = "row"
          /\ ~save_buffer[k + 1].actual.inf
          /\ save_buffer[k + 1].actual.size > save_buffer[k + 1].window
    /\ save_buffer[Len(Out) + 1].actual.inf

(* C20: an id literal is read as decimal first and as hexadecimal on      *)
(* failure: "0x1A" and "26" both yield 26 and "10.0" yields 10; a literal   *)
(* that is empty, or is neither a valid decimal nor a valid hexadecimal     *)
(* literal, ends in an uncaught error instead of a value.                   *)
Converted == conversion.pc \in {"returned", "raised"}
Yields(n) == conversion.pc = "returned" /\ conversion.out = Some(n)

\* the literal has a character no decimal or hexadecimal literal has
HasForeignChar(q) ==
    \E k \in DOMAIN q :
        ~IsHexDigit(q[k]) /\ q[k] \notin {"-", "+", ".", "x", "X"}

C20_LiteralParsing ==
    Converted =>
        LET q == conversion.id_string
        IN  /\ q = <<"0", "x", "1", "A">> => Yields(26)
            /\ q = <<"2", "6">> => Yields(26)
            /\ q = <<"1", "0", ".", "0">> => Yields(10)
            /\ (q # <<>> /\ AllDecDigits(q)) => Yields(Numeral(q, 10))
            /\ ( /\ Len(q) >= 3
                 /\ SubSeq(q, 1, 2) = <<"0", "x">>
                 /\ AllHexDigits(SubSeq(q, 3, Len(q))) ) =>
                  Yields(Numeral(SubSeq(q, 3, Len(q)), 16))
            /\ (q # <<>> /\ AllHexDigits(q) /\ ~AllDecDigits(q)
                   /\ \A k \in DOMAIN q : q[k] \notin {"e", "E"}) =>
                  Yields(Numeral(q, 16))
            /\ (q = <<>> \/ HasForeignChar(q)) => conversion.pc = "raised"
            /\ (\A k \in DOMAIN q : ~IsHexDigit(q[k])) =>
                  conversion.pc = "raised"

\* the hexadecimal reading was taken after the decimal one had failed
C20_Witness ==
    /\ conversion.id_string = <<"0", "x", "1", "A">>
    /\ conversion.pc = "returned"
    /\ conversion.out = Some(26)


(* C21: is_attribute_consistent returns true exactly when either all enum *)
(* items or none of them carry the given attribute, and check_enum_values   *)
(* raises the XML exception exactly when some but not all items carry a     *)
(* value attribute.                                                         *)
EnumItems ==
    {k \in DOMAIN consistency.element_tree :
        consistency.element_tree[k].tag = "item"}
Carrying(val_name) ==
    {k \in EnumItems : val_name \in consistency.element_tree[k].keys}
AllOrNone(val_name) ==
    Carrying(val_name) = EnumItems \/ Carrying(val_name) = {}

C21_EnumConsistency ==
    /\ consistency.pc \in {"returned", "passed", "raised"} =>
          consistency.result = Some(AllOrNone(consistency.val_name))
    /\ consistency.pc = "raised" => ~AllOrNone("value")
    /\ consistency.pc = "passed" => AllOrNone("value")
    /\ consistency.pc \in {"raised", "passed"} =>
          consistency.val_name = "value"

\* the exception was raised for three items of which two carry a value
C21_Witness ==
    /\ consistency.pc = "raised"
    /\ Cardinality(EnumItems) = 3
    /\ Cardinality(Carrying("value")) = 2


(* C22: a merge step with both a fixed and a floating candidate pending    *)
(* takes next_gap = base id + window of the last assigned entry (the       *)
(* clamped assembly base id + 0 before the first one); the floating        *)
(* candidate is assigned at next_gap if and only if next_gap + its window  *)
(* <= the fixed candidate's base id, and then the fixed candidate stays    *)
(* pending; otherwise the fixed candidate is assigned at its own base id   *)
(* and the floating one stays pending.  Exactly one is consumed per step.  *)
AsList(o) == IF IsNone(o) THEN <<>> ELSE <<Val(o)>>
PendingFixed == AsList(with_ID_obj) \o initial_comp_with_ID
PendingFloating == AsList(without_ID_obj) \o initial_comp_without_ID
NextGap ==
    IF Out = <<>> THEN Floor + 0
    ELSE Base(Len(Out)) + Out[Len(Out)].window

C22_MergeStep ==
    [][ (pc = "pass4" /\ PendingFixed # <<>> /\ PendingFloating # <<>>) =>
          LET fixed == Head(PendingFixed)
              floating == Head(PendingFloating)
          IN  IF NextGap + floating.window <= Val(fixed.base_id)
              THEN /\ Out' = Append(Out, [floating EXCEPT
                                             !.base_id = Some(NextGap)])
                   /\ PendingFixed' = PendingFixed
                   /\ PendingFloating' = Tail(PendingFloating)
              ELSE /\ Out' = Append(Out, fixed)
                   /\ PendingFixed' = Tail(PendingFixed)
                   /\ PendingFloating' = PendingFloating ]_vars

\* a floating entry was fitted exactly in front of a pending fixed one, and
\* a fixed entry was assigned while a floating one waited
C22_Witness ==
    /\ Allocated
    /\ \E k \in 1..(Len(Out) - 1) :
          /\ ~IsFixedEntry(k)
          /\ IsFixedEntry(k + 1)
          /\ Base(k) + Out[k].window = Base(k + 1)
    /\ \E k \in 1..(Len(Out) - 1) : IsFixedEntry(k) /\ ~IsFixedEntry(k + 1)


(* C23: greedy first fit: whenever a fixed entry F has been assigned while *)
(* floating candidates remained unassigned, every floating candidate that   *)
(* remained (assigned later or still pending) has a window greater than     *)
(* F's base id minus the end of the entry assigned before F (the clamped    *)
(* assembly base id if F is first): none of them would have fit in the gap  *)
(* in front of F.                                                           *)
GapBefore(k) ==
    Base(k) - (IF k = 1 THEN Floor ELSE Base(k - 1) + Out[k - 1].window)
RemainingAfter(k) ==
    {Out[j].window : j \in {j \in DOMAIN Out : j > k /\ ~IsFixedEntry(j)}}
      \cup {PendingFloating[j].window : j \in DOMAIN PendingFloating}

C23_GreedyFirstFit ==
    (pc = "pass4" \/ Allocated) =>
        \A k \in DOMAIN Out :
            IsFixedEntry(k) => \A w \in RemainingAfter(k) : w > GapBefore(k)

\* a fixed entry was assigned behind a free gap that two floating
\* candidates of different windows were too wide for
C23_Witness ==
    /\ Allocated
    /\ \E k \in DOMAIN Out :
          /\ IsFixedEntry(k)
          /\ GapBefore(k) >= 1
          /\ Cardinality(RemainingAfter(k)) >= 2


(* C24: the engine does not mutate a candidate except for one write: in    *)
(* every step the name, window, instance reference, calculated range and    *)
(* calculated amount of every candidate stay unchanged, the base id of a    *)
(* fixed candidate stays unchanged, and the base id of a floating candidate *)
(* is written once, from none to its assigned value, in the step that       *)
(* appends it to the result, and never changes afterwards.                  *)
Frame(t) == [t EXCEPT !.base_id = None]

C24_CandidatesNotMutated ==
    [][ /\ \A c \in Held : \A d \in Held' :
              c.inst = d.inst =>
                 /\ Frame(d) = Frame(c)
                 /\ c.base_id # None => d.base_id = c.base_id
                 /\ (c.base_id = None /\ d.base_id # None) =>
                       /\ c \in FloatingWaiting
                       /\ Out' = Append(Out, d)
        /\ \A d \in FloatingWaiting' : d.base_id = None
        /\ \A d \in SeqSet(Out') \cup FixedHeld' : d.base_id # None ]_vars

\* two floating candidates have been written, one of them two steps ago,
\* around a fixed candidate
C24_Witness ==
    /\ Allocated
    /\ Len(Out) >= 3
    /\ ~IsFixedEntry(1)
    /\ IsFixedEntry(2)
    /\ ~IsFixedEntry(3)
    /\ Out[1].range # None


(* C25: the result is an order-preserving merge of the two sorted queues:  *)
(* its fixed entries are in ascending base-id order, its floating entries   *)
(* in ascending window order with candidates of equal window in declaration *)
(* order, and the result as a whole is in non-decreasing base-id order,     *)
(* which in general is not the declaration order.                           *)
C25_OrderPreservingMerge ==
    Allocated =>
        \A j, k \in DOMAIN Out :
            j < k =>
               /\ Base(j) <= Base(k)
               /\ (~IsFixedEntry(j) /\ ~IsFixedEntry(k)) =>
                     \/ Out[j].window < Out[k].window
                     \/ /\ Out[j].window = Out[k].window
                        /\ Out[j].inst < Out[k].inst

\* two fixed entries, two floating entries of equal window, and a result
\* that is not in declaration order
C25_Witness ==
    /\ Allocated
    /\ \E j, k \in DOMAIN Out :
          j < k /\ IsFixedEntry(j) /\ IsFixedEntry(k)
    /\ \E j, k \in DOMAIN Out :
          /\ j < k
          /\ ~IsFixedEntry(j)
          /\ ~IsFixedEntry(k)
          /\ Out[j].window = Out[k].window
    /\ \E j, k \in DOMAIN Out : j < k /\ Out[j].inst > Out[k].inst


(* C26: every base id in a successful result is at least                   *)
(* max(assembly_base_id, 1): a fixed base id below that floor has the       *)
(* floor added to it, and the floating entries are placed from the floor    *)
(* upwards.                                                                 *)
C26_FloorOfBaseIds ==
    Allocated => \A k \in DOMAIN Out : Base(k) >= Floor

\* a result under a clamped assembly base id, with a fixed entry that asked
\* for a base id below the floor and a floating entry
C26_Witness ==
    /\ Allocated
    /\ assembly_base_id <= 0
    /\ \E k \in DOMAIN Out :
          IsFixedEntry(k) /\ AskedBase(InstOf(Out[k])) < Floor
    /\ \E k \in DOMAIN Out : ~IsFixedEntry(k)


(* C27: for an instance without an explicit window whose component has a   *)
(* required range r, the resolved window is max(assembly_window, r) and so  *)
(* never below r; a resolved window below the required range occurs only    *)
(* for an instance with an explicit window.                                 *)
C27_UndersizedOnlyExplicit ==
    \A t \in Held :
        t.range # None =>
           /\ InstOf(t).base_id_window = None =>
                 /\ t.window = Max2(assembly_window, Val(t.range))
                 /\ t.window >= Val(t.range)
           /\ t.window < Val(t.range) => InstOf(t).base_id_window # None

\* the required range exceeds the assembly window and becomes the window
\* of an instance without one, next to an instance whose explicit window
\* is below its required range
C27_Witness ==
    /\ \E t \in Held :
          /\ InstOf(t).base_id_window = None
          /\ t.range # None
          /\ Val(t.range) > assembly_window
          /\ t.window = Val(t.range)
    /\ \E t \in Held :
          /\ InstOf(t).base_id_window # None
          /\ t.range # None
          /\ t.window < Val(t.range)


(* C28: in the report of a successful result every row except the last    *)
(* has an actual window, next base id minus own base id, greater than or    *)
(* equal to the row's requested window.                                     *)
ReportRows == {k \in DOMAIN save_buffer : save_buffer[k].kind = "row"}

C28_ActualCoversRequested ==
    (Allocated /\ save_buffer # <<>>) =>
        \A k \in ReportRows :
            ~save_buffer[k].actual.inf =>
               /\ save_buffer[k].actual.size >= save_buffer[k].window
               /\ k + 1 \in ReportRows
               /\ save_buffer[k].actual.size =
                     save_buffer[k + 1].base_id - save_buffer[k].base_id

\* a report with a row whose actual window equals the requested one and a
\* row whose actual window is larger
C28_Witness ==
    /\ Allocated
    /\ \E k \in ReportRows :
          /\ ~save_buffer[k].actual.inf
          /\ save_buffer[k].window >= 1
          /\ save_buffer[k].actual.size = save_buffer[k].window
    /\ \E k \in ReportRows :
          /\ ~save_buffer[k].actual.inf
          /\ save_buffer[k].actual.size > save_buffer[k].window


(* C29: the id namespaces of the collision check are separate except for   *)
(* the shared opcode space: an event id equal to a channel id, a command    *)
(* opcode or a parameter id, and a parameter id equal to a command opcode   *)
(* or a set or save opcode, never cause the abort, which happens only for   *)
(* equal ids within one namespace; two parameters with the same parameter   *)
(* id do cause it.                                                          *)
ParameterIds(c) == [k \in DOMAIN c.parameters |-> c.parameters[k].id]
CrossEqual(a, b) == \E i \in DOMAIN a, j \in DOMAIN b : a[i] = b[j]

C29_SeparateNamespaces ==
    (AnalysisHalted /\ ~IsNone(analysis.comp_xml)) =>
        LET c == AnalysedDefinition
        IN  /\ ( /\ Distinct(c.events)
                 /\ Distinct(c.channels)
                 /\ Distinct(ParameterIds(c))
                 /\ Distinct(OpcodeSpace(c)) ) => analysis.pc # "exit"
            /\ ~Distinct(ParameterIds(c)) => analysis.pc = "exit"

\* the analysis completed on a component whose event id, channel id and
\* command opcode are equal and whose parameter id is its set opcode
C29_Witness ==
    /\ AnalysisCompleted
    /\ ~IsNone(analysis.comp_xml)
    /\ CrossEqual(AnalysedDefinition.events, AnalysedDefinition.channels)
    /\ CrossEqual(AnalysedDefinition.events, AnalysedDefinition.commands)
    /\ AnalysedDefinition.parameters # <<>>
    /\ AnalysedDefinition.parameters[1].id
          = AnalysedDefinition.parameters[1].set_opcode


(* C30: the hash-derived type id of an array is only a fallback: when the  *)
(* array definition specifies its own typeid, get_type_id returns the       *)
(* specified typeid, and the hash-derived id is used only when no typeid    *)
(* is specified.                                                            *)
\* the typeids the definition specifies: as texts of typeid elements, and
\* as the typeid attribute of the root
TypeIdElements ==
    {array.tags[k].text :
        k \in {j \in DOMAIN array.tags : array.tags[j].tag = "typeid"}}
SpecifiedTypeIds ==
    TypeIdElements
      \cup (IF IsNone(array.attrib_typeid) THEN {} ELSE {Val(array.attrib_typeid)})
IsHashed == get_type_id = Some(HashedTypeId(array.attrib_typeid, array.tags))

C30_HashOnlyFallback ==
    array.pc = "constructed" =>
        /\ SpecifiedTypeIds # {} =>
              \E v \in SpecifiedTypeIds : get_type_id = Some(v)
        /\ IsHashed => SpecifiedTypeIds = {}


=============================================================================
